---- MODULE Spec2Model ----
(***************************************************************************)
(* BGP simulator: AS graph construction, cycle validation, rank            *)
(* assignment, seeding, ROV overlay and the three-phase propagation.       *)
(* Sources: include/as_graph.h, include/bgp_policy.h, unnamed/part_002     *)
(* (as_graph.cpp), unnamed/part_001 (prefix parsing, drivers).             *)
(***************************************************************************)
EXTENDS Integers, Sequences, FiniteSets, TLC

\* ------------------------------------------------------------------ bounds
\* addRelationship calls in a run of the graph specification.
MaxGraphEdges == 3
\* addRelationship calls in a run of the propagation specification.
MaxEdges == 2
\* addRelationship calls in a run of the step-wise specification without ROV.
MaxStepEdges == 3

\* The ASNs the graph specification draws from (ASN is uint32_t; 0 is a legal
\* ASN for addRelationship), and those the propagation specification draws from.
ASNs == {0, 1, 2, 3}
SimASNs == {0, 1, 2}

\* enum class RelationType (topology edges)
REL_CUSTOMER == -1
REL_PEER == 0
REL_PROVIDER == 1
RelationTypes == {REL_CUSTOMER, REL_PEER, REL_PROVIDER}

\* enum class RelationshipType (received_from tags)
ORIGIN == 0
CUSTOMER == 1
PEER == 2
PROVIDER == 3

VARIABLES
    nodes,                   \* keys of ASGraph::nodes
    providers,               \* ASNode::providers, per ASN, a sequence of ASNs
    customers,               \* ASNode::customers
    peers,                   \* ASNode::peers
    edge_count,
    provider_customer_edges,
    peer_edges,
    cycles,                  \* result of detectCycles: "unknown", "true" or "false"
    propagation_rank,        \* ASNode::propagation_rank (-1 until flattened)
    ranked_ases,             \* ASGraph::ranked_ases; ranked_ases[r + 1] is rank r
    policy,                  \* ASNode::policy: "null", "BGP" or "ROV"
    local_rib,               \* BGPPolicy::local_rib per ASN: prefix -> announcement
    received_queue,          \* BGPPolicy::received_queue per ASN: prefix -> candidates
    rov_asns,                \* ASGraph::rov_asns
    pc,                      \* position of the driver
    rank,                    \* loop variable of propagateUp / propagateDown
    idx,                     \* position in ranked_ases[rank] of the running loop
    todo,                    \* ASes the running loop over `nodes` has not visited
    seeded,                  \* history: <<asn, prefix>> pairs seeded so far
    rerun,                   \* history: propagateAnnouncements has returned before
    sent,                    \* history: the deliveries (receiveAnnouncement calls) of
                             \* the current propagateAnnouncements call
    prior_rib,               \* history: every RIB as the current propagateAnnouncements
                             \* call found it
    seed_calls               \* history: the origin ASNs seedAnnouncement was called with

graph_vars == <<nodes, providers, customers, peers, edge_count,
                provider_customer_edges, peer_edges>>
rank_vars == <<propagation_rank, ranked_ases>>
policy_vars == <<policy, local_rib, received_queue, rov_asns>>
loop_vars == <<rank, idx, todo>>
hist_vars == <<seeded, rerun, sent, prior_rib, seed_calls>>
vars == <<graph_vars, cycles, rank_vars, policy_vars, pc, loop_vars, hist_vars>>

\* ------------------------------------------------------------------ helpers
EmptyMap == << >>

Range(s) == {s[i] : i \in 1 .. Len(s)}

\* Number of occurrences of x in sequence s.
Count(s, x) == Cardinality({i \in 1 .. Len(s) : s[i] = x})

\* Every iteration order of an unordered container holding the set S.
RECURSIVE Orders(_)
Orders(S) ==
    IF S = {} THEN {<< >>}
    ELSE UNION {{<<x>> \o rest : rest \in Orders(S \ {x})} : x \in S}

Max(a, b) == IF a >= b THEN a ELSE b

\* ------------------------------------------------------------------ graph
Init ==
    /\ nodes = {}
    /\ providers = [a \in ASNs |-> << >>]
    /\ customers = [a \in ASNs |-> << >>]
    /\ peers = [a \in ASNs |-> << >>]
    /\ edge_count = 0
    /\ provider_customer_edges = 0
    /\ peer_edges = 0
    /\ cycles = "unknown"
    /\ propagation_rank = [a \in ASNs |-> -1]
    /\ ranked_ases = << >>
    /\ policy = [a \in ASNs |-> "null"]
    /\ local_rib = [a \in ASNs |-> EmptyMap]
    /\ received_queue = [a \in ASNs |-> EmptyMap]
    /\ rov_asns = {}
    /\ pc = "build"
    /\ rank = 0
    /\ idx = 0
    /\ todo = {}
    /\ seeded = {}
    /\ rerun = FALSE
    /\ sent = {}
    /\ prior_rib = [a \in ASNs |-> EmptyMap]
    /\ seed_calls = {}

\* The adjacency lists after addRelationship(as1, as2, rel_type).
AddedProviders(as1, as2, rel_type) ==
    IF rel_type = REL_PROVIDER THEN [providers EXCEPT ![as1] = Append(@, as2)]
    ELSE IF rel_type = REL_CUSTOMER THEN [providers EXCEPT ![as2] = Append(@, as1)]
    ELSE providers

AddedCustomers(as1, as2, rel_type) ==
    IF rel_type = REL_PROVIDER THEN [customers EXCEPT ![as2] = Append(@, as1)]
    ELSE IF rel_type = REL_CUSTOMER THEN [customers EXCEPT ![as1] = Append(@, as2)]
    ELSE customers

\* Variant: a peer edge is entered at as1 only.
AddedPeers_OneSided(as1, as2, rel_type) ==
    IF rel_type = REL_PEER THEN [peers EXCEPT ![as1] = Append(@, as2)] ELSE peers

AddedPeers(as1, as2, rel_type) ==
    IF rel_type = REL_PEER
    THEN LET p1 == [peers EXCEPT ![as1] = Append(@, as2)]
         IN [p1 EXCEPT ![as2] = Append(@, as1)]
    ELSE peers

\* Variant: a peer edge is counted as a provider-customer edge as well.
addRelationship_CountAll(as1, as2, rel_type) ==
    /\ nodes' = nodes \cup {as1, as2}
    /\ edge_count' = edge_count + 1
    /\ providers' = AddedProviders(as1, as2, rel_type)
    /\ customers' = AddedCustomers(as1, as2, rel_type)
    /\ peers' = AddedPeers(as1, as2, rel_type)
    /\ provider_customer_edges' = provider_customer_edges + 1
    /\ peer_edges' = IF rel_type = REL_PEER THEN peer_edges + 1 ELSE peer_edges

addRelationship(as1, as2, rel_type) ==
    /\ nodes' = nodes \cup {as1, as2}
    /\ edge_count' = edge_count + 1
    /\ providers' = AddedProviders(as1, as2, rel_type)
    /\ customers' = AddedCustomers(as1, as2, rel_type)
    /\ peers' = AddedPeers(as1, as2, rel_type)
    /\ provider_customer_edges' =
           IF rel_type = REL_PEER THEN provider_customer_edges
           ELSE provider_customer_edges + 1
    /\ peer_edges' = IF rel_type = REL_PEER THEN peer_edges + 1 ELSE peer_edges

\* ------------------------------------------------------------------ cycle check
\* hasCycleDFS returns [found, visited, recursion_stack]: the result and the two
\* sets it updates by reference.
RECURSIVE hasCycleDFS(_, _, _, _, _)
RECURSIVE DFSNeighbors(_, _, _, _, _, _)

\* Whether the traversal skips `neighbor` because it is the node it came from.
SkipParent(neighbor, parent) == neighbor = parent

\* Variant: a node stays in the recursion stack after its traversal.
hasCycleDFS_KeepStack(current, parent, visited, recursion_stack, check_providers) ==
    LET v1 == visited \cup {current}
        s1 == recursion_stack \cup {current}
    IN  IF current \notin nodes
        THEN [found |-> FALSE, visited |-> v1, recursion_stack |-> s1]
        ELSE DFSNeighbors(current, parent, 1, v1, s1, check_providers)

DFSNeighbors(current, parent, i, visited, recursion_stack, check_providers) ==
    LET neighbors == IF check_providers THEN providers[current] ELSE customers[current]
    IN  IF i > Len(neighbors)
        THEN [found |-> FALSE, visited |-> visited, recursion_stack |-> recursion_stack]
        ELSE LET neighbor == neighbors[i]
             IN  IF SkipParent(neighbor, parent)
                 THEN DFSNeighbors(current, parent, i + 1, visited, recursion_stack,
                                   check_providers)
                 ELSE IF neighbor \in recursion_stack
                 THEN [found |-> TRUE, visited |-> visited,
                       recursion_stack |-> recursion_stack]
                 ELSE IF neighbor \notin visited
                 THEN LET r == hasCycleDFS(neighbor, current, visited, recursion_stack,
                                           check_providers)
                      IN  IF r.found THEN r
                          ELSE DFSNeighbors(current, parent, i + 1, r.visited,
                                            r.recursion_stack, check_providers)
                 ELSE DFSNeighbors(current, parent, i + 1, visited, recursion_stack,
                                   check_providers)

hasCycleDFS(current, parent, visited, recursion_stack, check_providers) ==
    LET v1 == visited \cup {current}
        s1 == recursion_stack \cup {current}
    IN  IF current \notin nodes
        THEN [found |-> FALSE, visited |-> v1, recursion_stack |-> s1 \ {current}]
        ELSE LET r == DFSNeighbors(current, parent, 1, v1, s1, check_providers)
             IN  IF r.found THEN r
                 ELSE [r EXCEPT !.recursion_stack = @ \ {current}]

\* One of the two loops of detectCycles over `nodes`, visited in `order`.
RECURSIVE DetectPass(_, _, _, _, _)
DetectPass(order, i, visited, recursion_stack, check_providers) ==
    IF i > Len(order) THEN FALSE
    ELSE IF order[i] \notin visited
    THEN LET r == hasCycleDFS(order[i], 0, visited, recursion_stack, check_providers)
         IN  IF r.found THEN TRUE
             ELSE DetectPass(order, i + 1, r.visited, r.recursion_stack, check_providers)
    ELSE DetectPass(order, i + 1, visited, recursion_stack, check_providers)

detectCycles(order) ==
    IF DetectPass(order, 1, {}, {}, TRUE) THEN TRUE
    ELSE DetectPass(order, 1, {}, {}, FALSE)

\* ------------------------------------------------------------------ ranking
\* std::unordered_map::operator[] on `ranks`: a missing key reads as 0.
RankOf(ranks, asn) == IF asn \in DOMAIN ranks THEN ranks[asn] ELSE 0

\* The first loop of flattenGraph over `nodes`, visited in `order`:
\* [ranks, customer_count, ready_queue].
RECURSIVE FlattenInit(_, _, _, _, _)
FlattenInit(order, i, ranks, customer_count, ready_queue) ==
    IF i > Len(order)
    THEN [ranks |-> ranks, customer_count |-> customer_count, ready_queue |-> ready_queue]
    ELSE LET asn == order[i]
         IN  IF customers[asn] = << >>
             THEN FlattenInit(order, i + 1, ranks @@ (asn :> 0), customer_count,
                              Append(ready_queue, asn))
             ELSE FlattenInit(order, i + 1, ranks,
                              customer_count @@ (asn :> Len(customers[asn])), ready_queue)

\* Variant: a provider takes its customer's rank unchanged.
NewProviderRank_Same(current_rank) == current_rank

\* The candidate rank a provider gets from a customer of rank current_rank.
NewProviderRank(current_rank) == current_rank + 1

\* The loop of flattenGraph over the providers of `current`, from the i-th on.
RECURSIVE FlattenProviders(_, _, _)
FlattenProviders(current, i, st) ==
    IF i > Len(providers[current]) THEN st
    ELSE LET provider_asn == providers[current][i]
         IN  IF provider_asn \notin DOMAIN st.customer_count
             THEN FlattenProviders(current, i + 1, st)
             ELSE LET new_provider_rank == NewProviderRank(st.ranks[current])
                      new_rank == IF provider_asn \in DOMAIN st.ranks
                                  THEN Max(st.ranks[provider_asn], new_provider_rank)
                                  ELSE new_provider_rank
                      ranks1 == [a \in DOMAIN st.ranks \cup {provider_asn} |->
                                    IF a = provider_asn THEN new_rank ELSE st.ranks[a]]
                      count == st.customer_count[provider_asn] - 1
                  IN  IF count = 0
                      THEN FlattenProviders(current, i + 1,
                               [ranks |-> ranks1,
                                customer_count |->
                                    [a \in DOMAIN st.customer_count \ {provider_asn} |->
                                        st.customer_count[a]],
                                ready_queue |-> Append(st.ready_queue, provider_asn),
                                max_rank |-> Max(st.max_rank, new_rank)])
                      ELSE FlattenProviders(current, i + 1,
                               [st EXCEPT !.ranks = ranks1,
                                          !.customer_count[provider_asn] = count])

\* The while loop of flattenGraph over ready_queue.
RECURSIVE FlattenLoop(_)
FlattenLoop(st) ==
    IF st.ready_queue = << >> THEN st
    ELSE LET current == Head(st.ready_queue)
         IN  FlattenLoop(FlattenProviders(current, 1,
                             [st EXCEPT !.ready_queue = Tail(@)]))

\* ranks and max_rank as flattenGraph has them before it fills ranked_ases.
FlattenRanks(order) ==
    LET s0 == FlattenInit(order, 1, EmptyMap, EmptyMap, << >>)
    IN  FlattenLoop([ranks |-> s0.ranks, customer_count |-> s0.customer_count,
                     ready_queue |-> s0.ready_queue, max_rank |-> 0])

\* The last loop of flattenGraph: ranked_ases[rank].push_back(asn) for the nodes
\* in `order` whose rank is an index of ranked_ases (size max_rank + 1).
RECURSIVE FillRanked(_, _, _, _)
FillRanked(order, i, ranks, acc) ==
    IF i > Len(order) THEN acc
    ELSE LET r == RankOf(ranks, order[i])
         IN  IF r + 1 <= Len(acc)
             THEN FillRanked(order, i + 1, ranks, [acc EXCEPT ![r + 1] = Append(@, order[i])])
             ELSE FillRanked(order, i + 1, ranks, acc)

\* Whether the last loop writes ranked_ases[rank] with rank > max_rank.
FlattenOutOfBounds(ranks, max_rank) ==
    \E a \in nodes : RankOf(ranks, a) > max_rank

\* ------------------------------------------------------------------ prefixes
\* The prefix texts the seeds use.
PrefixStrs == {"10.0.0.0/8"}

\* Prefix::parse on the texts above: IPv4 (no ':'), the address in host byte
\* order and the length after the '/'.
ParsePrefix(str) ==
    IF str = "10.0.0.0/8"
    THEN [is_ipv6 |-> FALSE, address |-> 167772160, prefix_len |-> 8]
    ELSE IF str = "1.2.0.0/16"
    THEN [is_ipv6 |-> FALSE, address |-> 16908288, prefix_len |-> 16]
    ELSE [is_ipv6 |-> FALSE, address |-> 0, prefix_len |-> 0]

\* Whether Prefix::parse ends by an exception: std::stoi throws on a length that
\* does not start with a digit, and no caller catches it.
ParseThrows(str) == str = "10.0.0.0/x"

\* ------------------------------------------------------------------ announcements
\* Announcement(p, origin, ORIGIN, rov_inv)
NewAnnouncement(p, origin, rel, rov_inv) ==
    [prefix |-> p, next_hop_asn |-> origin, received_from |-> rel,
     rov_invalid |-> rov_inv, as_path |-> <<origin>>]

\* Variant: the copy keeps the tag of the sender's entry.
copy_with_new_hop_KeepTag(ann, new_next_hop, new_rel) ==
    [ann EXCEPT !.next_hop_asn = new_next_hop]

\* Variant: the sender prepends itself to the path of the copy it sends.
copy_with_new_hop_Prepend(ann, new_next_hop, new_rel) ==
    [ann EXCEPT !.next_hop_asn = new_next_hop,
                !.received_from = new_rel,
                !.as_path = <<new_next_hop>> \o @]

\* Variant: the copy is marked valid.
copy_with_new_hop_Valid(ann, new_next_hop, new_rel) ==
    [ann EXCEPT !.next_hop_asn = new_next_hop,
                !.received_from = new_rel,
                !.rov_invalid = FALSE]

\* Variant: the copy keeps the next hop of the sender's entry.
copy_with_new_hop_KeepHop(ann, new_next_hop, new_rel) ==
    [ann EXCEPT !.received_from = new_rel]

copy_with_new_hop(ann, new_next_hop, new_rel) ==
    [prefix |-> ann.prefix, next_hop_asn |-> new_next_hop, received_from |-> new_rel,
     rov_invalid |-> ann.rov_invalid, as_path |-> ann.as_path]

containsAS(ann, asn) == \E i \in 1 .. Len(ann.as_path) : ann.as_path[i] = asn

\* Variant: no tie-breaker on the next hop.
isBetterThan_NoTieBreak(a, b) ==
    IF a.received_from # b.received_from THEN a.received_from < b.received_from
    ELSE Len(a.as_path) < Len(b.as_path)

\* Variant: the tie-breaker also prefers an equal next hop.
isBetterThan_OrEqual(a, b) ==
    IF a.received_from # b.received_from THEN a.received_from < b.received_from
    ELSE IF Len(a.as_path) # Len(b.as_path) THEN Len(a.as_path) < Len(b.as_path)
    ELSE a.next_hop_asn <= b.next_hop_asn

isBetterThan(a, b) ==
    IF a.received_from # b.received_from THEN a.received_from < b.received_from
    ELSE IF Len(a.as_path) # Len(b.as_path) THEN Len(a.as_path) < Len(b.as_path)
    ELSE a.next_hop_asn < b.next_hop_asn

\* ------------------------------------------------------------------ policies
\* BGPPolicy::receiveAnnouncement: the receiver's queue after the call.
BGPReceive(queue, ann) ==
    IF ann.prefix \in DOMAIN queue
    THEN [queue EXCEPT ![ann.prefix] = Append(@, ann)]
    ELSE queue @@ (ann.prefix :> <<ann>>)

\* Variant: ROV stages what it is offered, as BGP does.
ROVReceive_NoFilter(queue, ann) == BGPReceive(queue, ann)

\* Variant: ROV stages nothing.
ROVReceive_DropAll(queue, ann) == queue

\* ROV::receiveAnnouncement
ROVReceive(queue, ann) ==
    IF ann.rov_invalid THEN queue ELSE BGPReceive(queue, ann)

\* Variant: every policy receives as the base class does.
receiveAnnouncement_Base(kind, queue, ann) == BGPReceive(queue, ann)

\* Virtual dispatch of receiveAnnouncement on the policy kind.
receiveAnnouncement(kind, queue, ann) ==
    IF kind = "ROV" THEN ROVReceive(queue, ann) ELSE BGPReceive(queue, ann)

\* Variant: the first candidate is taken without comparison.
BestCandidate_First(candidates, i) == candidates[1]

\* The best of candidates[1..i] as the loop of processReceivedQueue finds it.
RECURSIVE BestCandidate(_, _)
BestCandidate(candidates, i) ==
    IF i = 1 THEN candidates[1]
    ELSE LET best == BestCandidate(candidates, i - 1)
         IN  IF isBetterThan(candidates[i], best) THEN candidates[i] ELSE best

\* Variant: the receiver stores the candidate without prepending itself.
StoredAnn_NoPrepend(best, current_asn) == best

\* The announcement processReceivedQueue stores: current_asn prepended.
StoredAnn(best, current_asn) ==
    [best EXCEPT !.as_path = <<current_asn>> \o @]

\* Variant: the best candidate always replaces the entry.
Installs_Always(rib, stored_ann) == TRUE

\* Whether processReceivedQueue writes stored_ann over the RIB entries `rib`.
Installs(rib, stored_ann) ==
    \/ stored_ann.prefix \notin DOMAIN rib
    \/ isBetterThan(stored_ann, rib[stored_ann.prefix])

\* Variant: the RIB is rebuilt from the prefixes that have candidates.
processReceivedQueue_StagedOnly(rib, queue, current_asn) ==
    LET Stored(p) == StoredAnn(BestCandidate(queue[p], Len(queue[p])), current_asn)
        live == {p \in DOMAIN queue : queue[p] # << >>}
    IN  [p \in live |-> IF Installs(rib, Stored(p)) THEN Stored(p) ELSE rib[p]]

\* BGP::processReceivedQueue: the RIB after the call.  Each prefix of the queue
\* is handled on its own, so the order of the loop does not show.
processReceivedQueue(rib, queue, current_asn) ==
    LET Stored(p) == StoredAnn(BestCandidate(queue[p], Len(queue[p])), current_asn)
        live == {p \in DOMAIN queue : queue[p] # << >>}
    IN  [p \in DOMAIN rib \cup live |->
            IF p \in live /\ Installs(rib, Stored(p)) THEN Stored(p) ELSE rib[p]]

\* Variant: the call reports a change whenever a prefix has candidates.
processReturns_AnyStaged(rib, queue, current_asn) ==
    \E p \in DOMAIN queue : queue[p] # << >>

\* BGP::processReceivedQueue: the value returned (`changed`).
processReturns(rib, queue, current_asn) ==
    LET Stored(p) == StoredAnn(BestCandidate(queue[p], Len(queue[p])), current_asn)
    IN  \E p \in DOMAIN queue : queue[p] # << >> /\ Installs(rib, Stored(p))

\* Variant: every entry goes to providers and peers.
ExportableUp_All(ann) == TRUE

\* ------------------------------------------------------------------ sending
\* Valley-free filter of propagateUp and propagateAcross.
\* Variant: only an AS's own announcements go to its providers and peers.
ExportableUp_OriginOnly(ann) == ann.received_from = ORIGIN

ExportableUp(ann) == ann.received_from = CUSTOMER \/ ann.received_from = ORIGIN

\* propagateDown sends every entry.
ExportableDown(ann) == TRUE

\* Variant: peer-learned entries go to providers and peers too.
Exportable_PeerRoutes(new_rel, ann) == ann.received_from # PROVIDER

\* Variant: no valley-free filter on any send.
Exportable_Any(new_rel, ann) == TRUE

Exportable(new_rel, ann) ==
    IF new_rel = PROVIDER THEN ExportableDown(ann) ELSE ExportableUp(ann)

\* The neighbor list a phase sends to: new_rel is the tag the copies carry.
Neighbors(asn, new_rel) ==
    IF new_rel = CUSTOMER THEN providers[asn]
    ELSE IF new_rel = PEER THEN peers[asn]
    ELSE customers[asn]

\* The inner loop over the neighbor list, from the i-th neighbor on.  st is
\* [queue, log]: every AS's received_queue, and the deliveries made.
RECURSIVE SendToNeighbors(_, _, _, _, _)
SendToNeighbors(asn, ann, new_rel, i, st) ==
    LET neighbors == Neighbors(asn, new_rel)
    IN  IF i > Len(neighbors) THEN st
        ELSE LET n == neighbors[i]
             IN  IF containsAS(ann, n) \/ policy[n] = "null"
                 THEN SendToNeighbors(asn, ann, new_rel, i + 1, st)
                 ELSE LET new_ann == copy_with_new_hop(ann, asn, new_rel)
                      IN  SendToNeighbors(asn, ann, new_rel, i + 1,
                              [queue |-> [st.queue EXCEPT
                                             ![n] = receiveAnnouncement(policy[n], @, new_ann)],
                               log |-> st.log \cup
                                   {[from |-> asn, to |-> n, ann |-> new_ann,
                                     tag |-> ann.received_from]}])

\* The loop over the sender's RIB entries (prefixes left to visit).
RECURSIVE SendEntries(_, _, _, _)
SendEntries(asn, new_rel, left, st) ==
    IF left = {} THEN st
    ELSE LET p == CHOOSE q \in left : TRUE
             ann == local_rib[asn][p]
         IN  SendEntries(asn, new_rel, left \ {p},
                 IF Exportable(new_rel, ann)
                 THEN SendToNeighbors(asn, ann, new_rel, 1, st)
                 ELSE st)

\* The body of a send loop for one AS: [queue, log] after it.
SendFrom(asn, new_rel) ==
    LET st0 == [queue |-> received_queue, log |-> sent]
    IN  IF asn \notin nodes \/ policy[asn] = "null" THEN st0
        ELSE IF Neighbors(asn, new_rel) = << >> THEN st0
        ELSE SendEntries(asn, new_rel, DOMAIN local_rib[asn], st0)

\* ------------------------------------------------------------------ loop control
\* The position after the send loops with nothing left to visit have been
\* left: p is [pc, rank, idx, todo].  A process loop is one step, taken even
\* when it has nothing to visit.
RECURSIVE Settle(_)
Settle(p) ==
    LET size == Len(ranked_ases)
    IN  CASE p.pc = "up_send" ->
               IF p.rank >= size
               THEN Settle([pc |-> "across_send", rank |-> 0, idx |-> 0, todo |-> nodes])
               ELSE IF p.idx <= Len(ranked_ases[p.rank + 1]) THEN p
               ELSE IF p.rank + 1 < size THEN [p EXCEPT !.pc = "up_process", !.idx = 0]
               ELSE Settle([p EXCEPT !.rank = p.rank + 1, !.idx = 1])
          [] p.pc = "across_send" ->
               IF p.todo # {} THEN p ELSE [p EXCEPT !.pc = "across_process"]
          [] p.pc = "down_send" ->
               IF p.rank < 0 THEN [pc |-> "done", rank |-> 0, idx |-> 0, todo |-> {}]
               ELSE IF p.idx <= Len(ranked_ases[p.rank + 1]) THEN p
               ELSE IF p.rank - 1 >= 0 THEN [p EXCEPT !.pc = "down_process", !.idx = 0]
               ELSE Settle([p EXCEPT !.rank = p.rank - 1, !.idx = 1])

\* The loop of propagateAnnouncements that adds up getLocalRIBSize() reads
\* through the policy pointer of every node without a null check.
NullPolicyRead == \E a \in nodes : policy[a] = "null"

\* Reading through a null pointer is undefined: the program may crash or go on.
MoveTo(p) ==
    LET q == Settle(p)
    IN  /\ \/ pc' = q.pc
           \/ q.pc = "done" /\ NullPolicyRead /\ pc' = "fault"
        /\ rank' = q.rank
        /\ idx' = q.idx
        /\ todo' = q.todo

Here == [pc |-> pc, rank |-> rank, idx |-> idx, todo |-> todo]

\* ------------------------------------------------------------------ driver
AddRelationship(as1, as2, rel_type, max_edges) ==
    /\ pc = "build"
    /\ edge_count < max_edges
    /\ addRelationship(as1, as2, rel_type)
    /\ UNCHANGED <<cycles, rank_vars, policy_vars, pc, loop_vars, hist_vars>>

\* detectCycles as the drivers call it: a cycle ends the program.
DetectCycles ==
    /\ pc = "build"
    /\ \E order \in Orders(nodes) :
           LET found == detectCycles(order)
           IN  /\ cycles' = IF found THEN "true" ELSE "false"
               /\ pc' = IF found THEN "rejected" ELSE "checked"
    /\ UNCHANGED <<graph_vars, rank_vars, policy_vars, loop_vars, hist_vars>>

\* initializeBGP: a BGP policy for every node that has none.
InitializeBGP ==
    /\ pc = "checked"
    /\ policy' = [a \in ASNs |-> IF a \in nodes /\ policy[a] = "null" THEN "BGP" ELSE policy[a]]
    /\ pc' = "init"
    /\ UNCHANGED <<graph_vars, cycles, rank_vars, local_rib, received_queue, rov_asns,
                   loop_vars, hist_vars>>

\* Variant: the ROV object takes over the RIB and the queue of the policy it
\* replaces.
Upgraded_None(list) == {}

\* The ASes whose policy loadROVASNs deletes and replaces by a new ROV object.
Upgraded(list) == {a \in list \ {0} : a \in nodes /\ policy[a] # "null"}

\* loadROVASNs on a file listing the ASNs of `list` (0 is skipped as invalid).
loadROVASNs(list) ==
    LET listed == {a \in list \ {0} : a \in nodes /\ policy[a] # "null"}
    IN  /\ rov_asns' = rov_asns \cup (list \ {0})
        /\ policy' = [a \in ASNs |-> IF a \in listed THEN "ROV" ELSE policy[a]]
        /\ local_rib' = [a \in ASNs |->
               IF a \in Upgraded(list) THEN EmptyMap ELSE local_rib[a]]
        /\ received_queue' = [a \in ASNs |->
               IF a \in Upgraded(list) THEN EmptyMap ELSE received_queue[a]]

LoadROVASNs(list) ==
    /\ pc = "init"
    /\ loadROVASNs(list)
    /\ pc' = "init"
    /\ UNCHANGED <<graph_vars, cycles, rank_vars, loop_vars, hist_vars>>

FlattenGraph(stages) ==
    /\ pc \in stages
    /\ \E order \in Orders(nodes) :
         LET st == FlattenRanks(order)
             filled == FillRanked(order, 1, st.ranks, [r \in 1 .. st.max_rank + 1 |-> << >>])
         IN  /\ propagation_rank' =
                    [a \in ASNs |-> IF a \in nodes THEN RankOf(st.ranks, a)
                                    ELSE propagation_rank[a]]
             /\ ranked_ases' = filled
             \* an out-of-bounds push_back is undefined: the program may crash
             \* or go on with the write lost
             /\ \/ pc' = "ranked"
                \/ FlattenOutOfBounds(st.ranks, st.max_rank) /\ pc' = "fault"
    /\ UNCHANGED <<graph_vars, cycles, policy_vars, loop_vars, hist_vars>>

\* Variant: the seed is installed whatever getNode returns.
CanSeed_Always(origin_asn) == TRUE

\* getNode(origin_asn) gives a node, and the node has a policy.
CanSeed(origin_asn) == origin_asn \in nodes /\ policy[origin_asn] # "null"

\* ASGraph::seedAnnouncement, with BGPPolicy::seedAnnouncement: what it does to
\* the RIBs, and where the program stands after it.
seedAnnouncement(origin_asn, prefix_str, rov_invalid) ==
    IF ~CanSeed(origin_asn)
    THEN UNCHANGED <<local_rib, seeded, pc>>
    ELSE IF ParseThrows(prefix_str)
    THEN pc' = "exception" /\ UNCHANGED <<local_rib, seeded>>
    ELSE LET prefix == ParsePrefix(prefix_str)
             ann == NewAnnouncement(prefix, origin_asn, ORIGIN, rov_invalid)
         IN  /\ local_rib' = [local_rib EXCEPT ![origin_asn] =
                    [p \in DOMAIN @ \cup {prefix} |-> IF p = prefix THEN ann ELSE @[p]]]
             /\ seeded' = seeded \cup {<<origin_asn, prefix>>}
             /\ UNCHANGED pc

SeedAnnouncement(origin_asn, prefix_str, rov_invalid) ==
    /\ pc = "ranked"
    /\ seedAnnouncement(origin_asn, prefix_str, rov_invalid)
    /\ UNCHANGED <<graph_vars, cycles, rank_vars, policy, received_queue, rov_asns,
                   loop_vars, rerun, sent, prior_rib, seed_calls>>

\* propagateAnnouncements is entered: propagateUp starts at rank 0.
PropagateAnnouncements ==
    /\ pc \in {"ranked", "done"}
    /\ rerun' = (pc = "done")
    /\ sent' = {}
    /\ prior_rib' = local_rib
    /\ MoveTo([pc |-> "up_send", rank |-> 0, idx |-> 1, todo |-> {}])
    /\ UNCHANGED <<graph_vars, cycles, rank_vars, policy_vars, seeded, seed_calls>>

\* Variant: a delivery is written into the receiver's RIB at once.
Send_Install(asn, new_rel) ==
    LET st == SendFrom(asn, new_rel)
    IN  /\ local_rib' = [a \in ASNs |->
               IF a \in nodes /\ policy[a] # "null"
               THEN processReceivedQueue(local_rib[a], st.queue[a], a)
               ELSE local_rib[a]]
        /\ received_queue' = received_queue
        /\ sent' = st.log
        /\ UNCHANGED <<graph_vars, cycles, rank_vars, policy, rov_asns, seeded,
                       rerun, prior_rib, seed_calls>>

\* What one body of a send loop does, for sender asn.
Send(asn, new_rel) ==
    LET st == SendFrom(asn, new_rel)
    IN  /\ received_queue' = st.queue
        /\ sent' = st.log
        /\ UNCHANGED <<graph_vars, cycles, rank_vars, policy, local_rib, rov_asns, seeded,
                       rerun, prior_rib, seed_calls>>

\* Variant: the process loop without clearReceivedQueue().
ProcessAll_NoClear(batch) ==
    LET live == {a \in batch : a \in nodes /\ policy[a] # "null"}
    IN  /\ local_rib' = [a \in ASNs |->
               IF a \in live THEN processReceivedQueue(local_rib[a], received_queue[a], a)
               ELSE local_rib[a]]
        /\ received_queue' = received_queue
        /\ UNCHANGED <<graph_vars, cycles, rank_vars, policy, rov_asns, hist_vars>>

\* A process loop over the ASes of `batch`: processReceivedQueue(asn), then
\* clearReceivedQueue(), for each one that has a policy.  Each call touches its
\* own AS only, so the order of the loop does not show.
ProcessAll(batch) ==
    LET live == {a \in batch : a \in nodes /\ policy[a] # "null"}
    IN  /\ local_rib' = [a \in ASNs |->
               IF a \in live THEN processReceivedQueue(local_rib[a], received_queue[a], a)
               ELSE local_rib[a]]
        /\ received_queue' = [a \in ASNs |-> IF a \in live THEN EmptyMap ELSE received_queue[a]]
        /\ UNCHANGED <<graph_vars, cycles, rank_vars, policy, rov_asns, hist_vars>>

\* propagateUp: the body of the send loop for the next AS of ranked_ases[rank].
UpSend ==
    /\ pc = "up_send"
    /\ Send(ranked_ases[rank + 1][idx], CUSTOMER)
    /\ MoveTo([Here EXCEPT !.idx = idx + 1])

\* Variant: propagateUp processes every AS after each rank.
UpProcess_All ==
    /\ pc = "up_process"
    /\ ProcessAll(nodes)
    /\ MoveTo([Here EXCEPT !.pc = "up_send", !.rank = rank + 1, !.idx = 1])

\* propagateUp: the process loop over ranked_ases[rank + 1].
UpProcess ==
    /\ pc = "up_process"
    /\ ProcessAll(Range(ranked_ases[rank + 2]))
    /\ MoveTo([Here EXCEPT !.pc = "up_send", !.rank = rank + 1, !.idx = 1])

\* propagateAcross: the body of the send loop for one AS not yet visited.
AcrossSend ==
    /\ pc = "across_send"
    /\ \E asn \in todo :
           /\ Send(asn, PEER)
           /\ MoveTo([Here EXCEPT !.todo = todo \ {asn}])

\* propagateAcross: the process loop over all nodes.
AcrossProcess ==
    /\ pc = "across_process"
    /\ ProcessAll(nodes)
    /\ MoveTo([pc |-> "down_send", rank |-> Len(ranked_ases) - 1, idx |-> 1, todo |-> {}])

\* propagateDown: the body of the send loop for the next AS of ranked_ases[rank].
DownSend ==
    /\ pc = "down_send"
    /\ Send(ranked_ases[rank + 1][idx], PROVIDER)
    /\ MoveTo([Here EXCEPT !.idx = idx + 1])

\* propagateDown: the process loop over ranked_ases[rank - 1].
DownProcess ==
    /\ pc = "down_process"
    /\ ProcessAll(Range(ranked_ases[rank]))
    /\ MoveTo([Here EXCEPT !.pc = "down_send", !.rank = rank - 1, !.idx = 1])

Propagate ==
    \/ UpSend
    \/ UpProcess
    \/ AcrossSend
    \/ AcrossProcess
    \/ DownSend
    \/ DownProcess

NextGraph ==
    \/ \E as1, as2 \in ASNs, rel_type \in RelationTypes :
           AddRelationship(as1, as2, rel_type, MaxGraphEdges)
    \/ DetectCycles
    \/ FlattenGraph({"checked"})

SpecGraph == Init /\ [][NextGraph]_vars

Next ==
    \/ \E as1, as2 \in SimASNs, rel_type \in RelationTypes :
           AddRelationship(as1, as2, rel_type, MaxEdges)
    \/ DetectCycles
    \/ InitializeBGP
    \/ \E list \in SUBSET SimASNs : LoadROVASNs(list)
    \/ FlattenGraph({"init"})
    \/ \E origin_asn \in SimASNs, prefix_str \in PrefixStrs, rov_invalid \in BOOLEAN :
           SeedAnnouncement(origin_asn, prefix_str, rov_invalid)
    \/ PropagateAnnouncements
    \/ Propagate

Spec == Init /\ [][Next]_vars

\* ------------------------------------------------------------------ steps
\* The propagation, loop body by loop body, with BGP policies only and valid
\* seeds only.
NextSteps ==
    \/ \E as1, as2 \in SimASNs, rel_type \in RelationTypes :
           AddRelationship(as1, as2, rel_type, MaxStepEdges)
    \/ DetectCycles
    \/ InitializeBGP
    \/ FlattenGraph({"init"})
    \/ \E origin_asn \in SimASNs, prefix_str \in PrefixStrs :
           SeedAnnouncement(origin_asn, prefix_str, FALSE)
    \/ PropagateAnnouncements
    \/ Propagate

SpecSteps == Init /\ [][NextSteps]_vars

\* ------------------------------------------------------------------ whole run
\* propagateAnnouncements as a function of what it reads: w is [rib, queue] (every
\* AS's RIB and received_queue), adj is [providers, customers, peers, policy]
\* (the adjacency lists and the kind of policy of every AS), ranked is
\* ranked_ases, across the order in which propagateAcross visits `nodes`.

\* The loop over the neighbor list `neighbors`, from the i-th neighbor on.
RECURSIVE RunToNeighbors(_, _, _, _, _, _, _)
RunToNeighbors(queue, neighbors, i, asn, ann, new_rel, pol) ==
    IF i > Len(neighbors) THEN queue
    ELSE LET n == neighbors[i]
         IN  IF containsAS(ann, n) \/ pol[n] = "null"
             THEN RunToNeighbors(queue, neighbors, i + 1, asn, ann, new_rel, pol)
             ELSE RunToNeighbors(
                      [queue EXCEPT ![n] = receiveAnnouncement(pol[n], @,
                                               copy_with_new_hop(ann, asn, new_rel))],
                      neighbors, i + 1, asn, ann, new_rel, pol)

\* The loop over the sender's RIB entries (prefixes left to visit).
RECURSIVE RunEntries(_, _, _, _, _, _, _)
RunEntries(queue, rib, left, neighbors, asn, new_rel, pol) ==
    IF left = {} THEN queue
    ELSE LET p == CHOOSE q \in left : TRUE
         IN  RunEntries(IF Exportable(new_rel, rib[p])
                        THEN RunToNeighbors(queue, neighbors, 1, asn, rib[p], new_rel, pol)
                        ELSE queue,
                        rib, left \ {p}, neighbors, asn, new_rel, pol)

\* A send loop over the ASes of `order`, from the i-th on; lists is the
\* adjacency the phase sends along.
RECURSIVE RunSend(_, _, _, _, _, _)
RunSend(w, order, i, new_rel, lists, pol) ==
    IF i > Len(order) THEN w
    ELSE LET asn == order[i]
         IN  IF asn \notin nodes \/ pol[asn] = "null" \/ lists[asn] = << >>
             THEN RunSend(w, order, i + 1, new_rel, lists, pol)
             ELSE RunSend([w EXCEPT !.queue =
                              RunEntries(@, w.rib[asn], DOMAIN w.rib[asn], lists[asn],
                                         asn, new_rel, pol)],
                          order, i + 1, new_rel, lists, pol)

\* A process loop over the ASes of `batch`: processReceivedQueue(asn), then
\* clearReceivedQueue(), for each one that has a policy.
RECURSIVE RunProcess(_, _, _)
RunProcess(w, batch, pol) ==
    IF batch = {} THEN w
    ELSE LET asn == CHOOSE a \in batch : TRUE
         IN  RunProcess(IF asn \in nodes /\ pol[asn] # "null"
                        THEN [rib |-> [w.rib EXCEPT ![asn] =
                                          processReceivedQueue(w.rib[asn], w.queue[asn], asn)],
                              queue |-> [w.queue EXCEPT ![asn] = EmptyMap]]
                        ELSE w,
                        batch \ {asn}, pol)

\* propagateUp from rank r on.
RECURSIVE RunUp(_, _, _, _)
RunUp(w, ranked, r, adj) ==
    IF r >= Len(ranked) THEN w
    ELSE LET w1 == RunSend(w, ranked[r + 1], 1, CUSTOMER, adj.providers, adj.policy)
             w2 == IF r + 1 < Len(ranked)
                   THEN RunProcess(w1, Range(ranked[r + 2]), adj.policy)
                   ELSE w1
         IN  RunUp(w2, ranked, r + 1, adj)

\* propagateAcross
RunAcross(w, across, adj) ==
    RunProcess(RunSend(w, across, 1, PEER, adj.peers, adj.policy), nodes, adj.policy)

\* propagateDown from rank r on, downwards.
RECURSIVE RunDown(_, _, _, _)
RunDown(w, ranked, r, adj) ==
    IF r < 0 THEN w
    ELSE LET w1 == RunSend(w, ranked[r + 1], 1, PROVIDER, adj.customers, adj.policy)
             w2 == IF r - 1 >= 0 THEN RunProcess(w1, Range(ranked[r]), adj.policy) ELSE w1
         IN  RunDown(w2, ranked, r - 1, adj)

\* The RIBs and queues propagateAnnouncements leaves.
RunPropagation(w, ranked, across, adj) ==
    RunDown(RunAcross(RunUp(w, ranked, 0, adj), across, adj), ranked, Len(ranked) - 1, adj)

\* propagateAnnouncements from call to return; the final count loop reads every
\* policy.  propagateAcross visits `nodes` in the order of the hash map: an AS
\* without peers is passed over, `across` is the order of the others.
PropagateAnnouncementsWhole(across) ==
    /\ pc \in {"ranked", "done"}
    /\ rerun' = (pc = "done")
    /\ prior_rib' = local_rib
    /\ \E w \in {RunPropagation([rib |-> local_rib, queue |-> received_queue],
                                ranked_ases, across,
                                [providers |-> providers, customers |-> customers,
                                 peers |-> peers, policy |-> policy])} :
           /\ local_rib' = w.rib
           /\ received_queue' = w.queue
    /\ \/ pc' = "done"
       \/ NullPolicyRead /\ pc' = "fault"
    /\ UNCHANGED <<graph_vars, cycles, rank_vars, policy, rov_asns, loop_vars, seeded,
                   sent, seed_calls>>

NextRuns ==
    \/ \E as1, as2 \in SimASNs, rel_type \in RelationTypes :
           AddRelationship(as1, as2, rel_type, MaxEdges)
    \/ DetectCycles
    \/ InitializeBGP
    \/ \E list \in SUBSET SimASNs : LoadROVASNs(list)
    \/ FlattenGraph({"init"})
    \/ \E origin_asn \in SimASNs, prefix_str \in PrefixStrs, rov_invalid \in BOOLEAN :
           SeedAnnouncement(origin_asn, prefix_str, rov_invalid)
    \/ \E across \in Orders({a \in nodes : peers[a] # << >>}) :
           PropagateAnnouncementsWhole(across)

SpecRuns == Init /\ [][NextRuns]_vars

\* ------------------------------------------------------------------ file
\* buildFromFile, one line at a time.  A line is the sequence of its characters.
Digit ==
    ("0" :> 0) @@ ("1" :> 1) @@ ("2" :> 2) @@ ("3" :> 3) @@ ("4" :> 4) @@
    ("5" :> 5) @@ ("6" :> 6) @@ ("7" :> 7) @@ ("8" :> 8) @@ ("9" :> 9)

\* The character at position i; "" stands for the terminating '\0'.
CharAt(line, i) == IF i \in 1 .. Len(line) THEN line[i] ELSE ""

\* The first position from i on that holds no white space.
RECURSIVE SkipSpace(_, _)
SkipSpace(line, i) == IF CharAt(line, i) = " " THEN SkipSpace(line, i + 1) ELSE i

\* The decimal digits from position i on: [val, end], end the first position
\* after them.
RECURSIVE ReadDigits(_, _, _)
ReadDigits(line, i, val) ==
    IF CharAt(line, i) \in DOMAIN Digit
    THEN ReadDigits(line, i + 1, 10 * val + Digit[CharAt(line, i)])
    ELSE [val |-> val, end |-> i]

\* std::strtoul(str, &end, 10) with str at position i, cast to ASN (uint32_t):
\* white space, an optional sign, digits; end = str when there is no digit.
\* After a '-' the value is negated in unsigned arithmetic: -v stands here for
\* the ASN 2^32 - v.
strtoul(line, i) ==
    LET j == SkipSpace(line, i)
        k == IF CharAt(line, j) \in {"+", "-"} THEN j + 1 ELSE j
        d == ReadDigits(line, k, 0)
    IN  IF d.end = k THEN [val |-> 0, end |-> i]
        ELSE [val |-> IF CharAt(line, j) = "-" THEN 0 - d.val ELSE d.val, end |-> d.end]

\* std::atoi(str) with str at position i: 0 when no number starts there.
atoi(line, i) ==
    LET j == SkipSpace(line, i)
        k == IF CharAt(line, j) \in {"+", "-"} THEN j + 1 ELSE j
        d == ReadDigits(line, k, 0)
    IN  IF CharAt(line, j) = "-" THEN 0 - d.val ELSE d.val

\* What the loop body of buildFromFile makes of a line: [skip, as1, as2, rel_val].
ParseLine(line) ==
    LET skipped == [skip |-> TRUE, as1 |-> 0, as2 |-> 0, rel_val |-> 0]
        f1 == strtoul(line, 1)
        f2 == strtoul(line, f1.end + 1)
        rel_val == atoi(line, f2.end + 1)
    IN  IF line = << >> \/ line[1] = "#" THEN skipped
        ELSE IF f1.end = 1 \/ CharAt(line, f1.end) # "|" THEN skipped
        ELSE IF f2.end = f1.end + 1 \/ CharAt(line, f2.end) # "|" THEN skipped
        ELSE IF rel_val \notin {-1, 0, 1} THEN skipped
        ELSE [skip |-> FALSE, as1 |-> f1.val, as2 |-> f2.val, rel_val |-> rel_val]

\* The lines a file is made of.
FileLines ==
    {<<"1", "|", "2", "|", "-", "1", "|", "s">>,
     <<"1", "|", "2", "|", "0">>,
     <<"2", "|", "3", "|", "1", "|", "s">>,
     <<"3", "|", "1", "|", "0", "|", "s">>,
     <<" ", "2", "|", "1", "|", " ", "1">>,
     <<"0", "|", "1", "|", "1">>,
     <<"3", "|", "0", "|", "-", "1", "|", "s">>,
     <<"1", "|", "3", "|", "2", "|", "s">>,
     <<"3", "|", "2", "|", "x", "|", "s">>,
     <<"2", "|", "3", "|", "|", "s">>,
     <<"1", "|", "2", "|", "-">>,
     <<"#", "1", "|", "2", "|", "0">>,
     <<"1", " ", "2", "|", "0">>,
     <<"1", "|", "x", "|", "0">>,
     <<"1", "|", "2">>,
     << >>}

\* One pass of the while loop of buildFromFile.
ReadLine(line) ==
    LET rec == ParseLine(line)
    IN  /\ pc = "build"
        /\ edge_count < MaxGraphEdges
        /\ IF rec.skip THEN UNCHANGED graph_vars
           ELSE addRelationship(rec.as1, rec.as2, rec.rel_val)
        /\ UNCHANGED <<cycles, rank_vars, policy_vars, pc, loop_vars, hist_vars>>

NextFile == \E line \in FileLines : ReadLine(line)

SpecFile == Init /\ [][NextFile]_vars

\* ------------------------------------------------------------------ calls
\* The calls of the public interface in orders and with arguments the drivers
\* do not rule out: relationships added after initializeBGP, seeds with prefix
\* texts that do not parse and origins the graph does not have, loadROVASNs after
\* seeding and after propagation.
MaxCallEdges == 2

\* The ASNs the relationships are drawn from, and those the seeds and the ROV
\* lists are drawn from: AS 3 is never in the graph.
CallASNs == {1, 2}
CallOrigins == {1, 2, 3}

\* A prefix, a text without '/', a text whose length is not a number.
CallStrs == {"10.0.0.0/8", "not-a-prefix", "10.0.0.0/x"}

\* addRelationship after initializeBGP: a new AS gets no policy.
AddRelationshipLate(as1, as2, rel_type, max_edges) ==
    /\ pc = "init"
    /\ edge_count < max_edges
    /\ addRelationship(as1, as2, rel_type)
    /\ UNCHANGED <<cycles, rank_vars, policy_vars, pc, loop_vars, hist_vars>>

\* seedAnnouncement, with the call recorded when the graph does not have the
\* origin.
SeedCall(origin_asn, prefix_str, rov_invalid) ==
    /\ pc = "ranked"
    /\ seedAnnouncement(origin_asn, prefix_str, rov_invalid)
    /\ seed_calls' = seed_calls \cup ({origin_asn} \ nodes)
    /\ UNCHANGED <<graph_vars, cycles, rank_vars, policy, received_queue, rov_asns,
                   loop_vars, rerun, sent, prior_rib>>

\* loadROVASNs after seeding or after a propagateAnnouncements call, for the
\* first list that names an ASN.
LoadROVASNsLate(list) ==
    /\ pc \in {"ranked", "done"}
    /\ rov_asns = {}
    /\ loadROVASNs(list)
    /\ UNCHANGED <<graph_vars, cycles, rank_vars, pc, loop_vars, hist_vars>>

NextCalls ==
    \/ \E as1, as2 \in CallASNs, rel_type \in RelationTypes :
           AddRelationship(as1, as2, rel_type, MaxCallEdges)
    \/ DetectCycles
    \/ InitializeBGP
    \/ \E as1, as2 \in CallASNs, rel_type \in RelationTypes :
           AddRelationshipLate(as1, as2, rel_type, MaxCallEdges)
    \/ FlattenGraph({"init"})
    \/ \E origin_asn \in CallOrigins, prefix_str \in CallStrs :
           SeedCall(origin_asn, prefix_str, FALSE)
    \/ \E list \in SUBSET CallASNs : LoadROVASNsLate(list)
    \/ PropagateAnnouncements
    \/ Propagate

SpecCalls == Init /\ [][NextCalls]_vars

\* ------------------------------------------------------------------ order
\* The graph driven through its bound methods with load_rov_asns on either side
\* of initialize_bgp.

\* loadROVASNs before initializeBGP: no node has a policy yet.
LoadROVASNsEarly(list) ==
    /\ pc = "checked"
    /\ loadROVASNs(list)
    /\ UNCHANGED <<graph_vars, cycles, rank_vars, pc, loop_vars, hist_vars>>

NextOrder ==
    \/ \E as1, as2 \in SimASNs, rel_type \in RelationTypes :
           AddRelationship(as1, as2, rel_type, MaxEdges)
    \/ DetectCycles
    \/ \E list \in SUBSET SimASNs : LoadROVASNsEarly(list)
    \/ InitializeBGP
    \/ \E list \in SUBSET SimASNs : LoadROVASNs(list)

SpecOrder == Init /\ [][NextOrder]_vars

\* ------------------------------------------------------------------ one policy
\* A BGP policy object on its own, driven through its public methods.  It is
\* kept in the slot of PolicyASN, the ASN passed to processReceivedQueue.
PolicyASN == 1

\* Announcements per call sequence between two clearReceivedQueue calls.
MaxCandidates == 2

\* The announcements handed to receiveAnnouncement.
PolicyAnns ==
    {[prefix |-> ParsePrefix("10.0.0.0/8"), next_hop_asn |-> nh, received_from |-> rel,
      rov_invalid |-> inv, as_path |-> path] :
        nh \in {2, 3}, rel \in {CUSTOMER, PEER}, inv \in BOOLEAN,
        path \in {<<2>>, <<2, 3>>}}
    \cup {[prefix |-> ParsePrefix("1.2.0.0/16"), next_hop_asn |-> 2,
           received_from |-> PROVIDER, rov_invalid |-> FALSE, as_path |-> <<2>>]}

\* The number of announcements staged in `queue`.
RECURSIVE Staged(_, _)
Staged(queue, left) ==
    IF left = {} THEN 0
    ELSE LET p == CHOOSE q \in left : TRUE
         IN  Len(queue[p]) + Staged(queue, left \ {p})

InitPolicy ==
    /\ nodes = {}
    /\ providers = [a \in ASNs |-> << >>]
    /\ customers = [a \in ASNs |-> << >>]
    /\ peers = [a \in ASNs |-> << >>]
    /\ edge_count = 0
    /\ provider_customer_edges = 0
    /\ peer_edges = 0
    /\ cycles = "unknown"
    /\ propagation_rank = [a \in ASNs |-> -1]
    /\ ranked_ases = << >>
    /\ policy = [a \in ASNs |-> IF a = PolicyASN THEN "BGP" ELSE "null"]
    /\ local_rib = [a \in ASNs |-> EmptyMap]
    /\ received_queue = [a \in ASNs |-> EmptyMap]
    /\ rov_asns = {}
    /\ pc = "policy"
    /\ rank = 0
    /\ idx = 0
    /\ todo = {}
    /\ seeded = {}
    /\ rerun = FALSE
    /\ sent = {}
    /\ prior_rib = [a \in ASNs |-> EmptyMap]
    /\ seed_calls = {}

\* policy->receiveAnnouncement(ann)
PolicyReceive(ann) ==
    /\ pc = "policy"
    /\ Staged(received_queue[PolicyASN], DOMAIN received_queue[PolicyASN]) < MaxCandidates
    /\ received_queue' = [received_queue EXCEPT
                             ![PolicyASN] = receiveAnnouncement(policy[PolicyASN], @, ann)]
    /\ UNCHANGED <<graph_vars, cycles, rank_vars, policy, local_rib, rov_asns, pc,
                   loop_vars, hist_vars>>

\* policy->seedAnnouncement(ann)
PolicySeed(ann) ==
    /\ pc = "policy"
    /\ local_rib' = [local_rib EXCEPT ![PolicyASN] =
           [p \in DOMAIN @ \cup {ann.prefix} |-> IF p = ann.prefix THEN ann ELSE @[p]]]
    /\ UNCHANGED <<graph_vars, cycles, rank_vars, policy, received_queue, rov_asns, pc,
                   loop_vars, hist_vars>>

\* policy->processReceivedQueue(PolicyASN); the queue is left as it is.
PolicyProcess ==
    /\ pc = "policy"
    /\ local_rib' = [local_rib EXCEPT ![PolicyASN] =
           processReceivedQueue(@, received_queue[PolicyASN], PolicyASN)]
    /\ UNCHANGED <<graph_vars, cycles, rank_vars, policy, received_queue, rov_asns, pc,
                   loop_vars, hist_vars>>

\* policy->clearReceivedQueue()
PolicyClear ==
    /\ pc = "policy"
    /\ received_queue' = [received_queue EXCEPT ![PolicyASN] = EmptyMap]
    /\ UNCHANGED <<graph_vars, cycles, rank_vars, policy, local_rib, rov_asns, pc,
                   loop_vars, hist_vars>>

NextPolicy ==
    \/ \E ann \in PolicyAnns : PolicyReceive(ann)
    \/ \E p \in {ParsePrefix("10.0.0.0/8"), ParsePrefix("1.2.0.0/16")}, inv \in BOOLEAN :
           PolicySeed(NewAnnouncement(p, PolicyASN, ORIGIN, inv))
    \/ PolicyProcess
    \/ PolicyClear

SpecPolicy == InitPolicy /\ [][NextPolicy]_vars

\* ------------------------------------------------------------------ properties
\* The ASes one or more customer-to-provider edges above an AS of S.
RECURSIVE ProvidersAbove(_)
ProvidersAbove(S) ==
    LET next == S \cup UNION {Range(providers[a]) : a \in S}
    IN  IF next = S THEN S ELSE ProvidersAbove(next)

\* The customer-to-provider graph has a directed cycle (self-loops included).
CustomerProviderCycle ==
    \E a \in nodes : a \in ProvidersAbove(Range(providers[a]))

Acyclic == ~CustomerProviderCycle

\* No two ASes have more than one relationship.
SingleRelationship ==
    \A a, b \in nodes :
        Count(providers[a], b) + Count(customers[a], b) + Count(peers[a], b) <= 1

\* The RIB entries: <<asn, prefix>> pairs.
RibKeys == {<<a, p>> \in nodes \X UNION {DOMAIN local_rib[a] : a \in ASNs} :
               p \in DOMAIN local_rib[a]}

Entry(k) == local_rib[k[1]][k[2]]

\* C1: detectCycles returns true for every topology whose customer-to-provider
\* graph has a directed cycle, of any length, self-loops and two ASes that are each
\* other's provider included, whatever the visiting order.
C1_DetectsEveryCycle ==
    cycles = "false" => ~CustomerProviderCycle

\* C7: on every topology detectCycles returned false for, flattenGraph completes
\* with every AS in ranked_ases exactly once, at the index equal to its
\* propagation_rank, and every AS ranked above each of its customers.
C7_FlattenRanksEveryAS ==
    (cycles = "false" /\ pc \in {"ranked", "fault"}) =>
        /\ pc = "ranked"
        /\ \A a \in nodes :
               /\ propagation_rank[a] >= 0
               /\ propagation_rank[a] < Len(ranked_ases)
               /\ \A r \in 1 .. Len(ranked_ases) :
                      Count(ranked_ases[r], a) = IF r = propagation_rank[a] + 1 THEN 1 ELSE 0
               /\ \A c \in Range(customers[a]) : propagation_rank[a] > propagation_rank[c]

\* The largest propagation_rank among the ASes of the non-empty set S.
MaxRankOf(S) == CHOOSE m \in {propagation_rank[c] : c \in S} :
                    \A c \in S : propagation_rank[c] <= m

\* C8: on an acyclic topology flattenGraph gives rank 0 exactly to the ASes
\* without customers and 1 + the largest customer rank to every other AS, whatever
\* the peer edges, duplicate edges and dequeuing order.
C8_RankIsOnePlusMaxCustomerRank ==
    (pc = "ranked" /\ Acyclic) =>
        \A a \in nodes :
            propagation_rank[a] =
                IF customers[a] = << >> THEN 0 ELSE 1 + MaxRankOf(Range(customers[a]))

\* An AS of rank 2 with customers of different ranks, a duplicate edge or a peer.
C8_Witness ==
    /\ pc = "ranked"
    /\ Acyclic
    /\ \E a \in nodes :
           /\ propagation_rank[a] = 2
           /\ \E c, d \in Range(customers[a]) : propagation_rank[c] # propagation_rank[d]

\* C2: every announcement delivered to a provider or a peer is a copy of an entry
\* the sender's RIB holds at that moment with tag ORIGIN or CUSTOMER, and an
\* entry tagged PEER or PROVIDER is delivered to customers only.
DeliveryIsValleyFree(d) ==
    /\ \E p \in DOMAIN local_rib[d.from] :
           /\ d.ann = copy_with_new_hop(local_rib[d.from][p], d.from, d.ann.received_from)
           /\ d.tag = local_rib[d.from][p].received_from
    /\ d.ann.received_from \in {CUSTOMER, PEER} => d.tag \in {ORIGIN, CUSTOMER}
    /\ d.tag \in {PEER, PROVIDER} =>
           (d.ann.received_from = PROVIDER /\ d.to \in Range(customers[d.from]))
    /\ d.ann.received_from = CUSTOMER => d.to \in Range(providers[d.from])
    /\ d.ann.received_from = PEER => d.to \in Range(peers[d.from])

C2_ValleyFreeExport ==
    [][\A d \in sent' \ sent : DeliveryIsValleyFree(d)]_vars

\* In a second run an AS that holds a peer- or provider-learned entry and has a
\* provider and a peer has sent, and its customers were served.
C2_Witness ==
    /\ rerun
    /\ pc = "done"
    /\ \E d \in sent : d.tag \in {PEER, PROVIDER}
    /\ \E d \in sent : d.ann.received_from \in {CUSTOMER, PEER}
    /\ \E k \in RibKeys :
           /\ Entry(k).received_from \in {PEER, PROVIDER}
           /\ providers[k[1]] # << >> \/ peers[k[1]] # << >>

\* The kind of the hop from AS `from` to AS `to`: 1 customer-to-provider,
\* 2 peer, 3 provider-to-customer, 0 no relationship.
HopKind(from, to) ==
    IF to \in Range(providers[from]) THEN 1
    ELSE IF to \in Range(peers[from]) THEN 2
    ELSE IF to \in Range(customers[from]) THEN 3
    ELSE 0

\* The hops of a path read from the origin (last) to the holder (first).
Hops(path) == [i \in 1 .. Len(path) - 1 |->
                  HopKind(path[Len(path) - i + 1], path[Len(path) - i])]

ValleyFreePath(path) ==
    LET h == Hops(path)
    IN  /\ \A i \in 1 .. Len(h) : h[i] # 0
        /\ \A i, j \in 1 .. Len(h) : i < j => h[i] <= h[j]
        /\ Cardinality({i \in 1 .. Len(h) : h[i] = 2}) <= 1

\* C3: after propagation on a ranked acyclic topology without parallel
\* relationships every RIB path is customer-to-provider hops, then at most one
\* peer hop, then provider-to-customer hops, read from the origin.
C3_PathsAreValleyFree ==
    (pc = "done" /\ Acyclic /\ SingleRelationship) =>
        \A k \in RibKeys : ValleyFreePath(Entry(k).as_path)

\* A path of two hops, one of them a peer hop.
C3_Witness ==
    /\ pc = "done"
    /\ Acyclic
    /\ SingleRelationship
    /\ \E k \in RibKeys :
           /\ Len(Entry(k).as_path) = 3
           /\ \E i \in 1 .. 2 : Hops(Entry(k).as_path)[i] = 2

\* The tags under which N's entry e may be exported to X: one per relationship
\* between them that lets e through.
ExportTags(N, X, e) ==
    {t \in {CUSTOMER, PEER, PROVIDER} :
        /\ X \in Range(Neighbors(N, t))
        /\ t = PROVIDER \/ e.received_from \in {ORIGIN, CUSTOMER}}

\* Entry e of N can be offered to X.
Offerable(N, X, e) ==
    /\ ExportTags(N, X, e) # {}
    /\ ~containsAS(e, X)
    /\ policy[X] # "ROV" \/ ~e.rov_invalid

\* C4: the first propagateAnnouncements run on a ranked acyclic topology ends in
\* a steady state: whenever a neighbor's final entry can be offered to X, X has an
\* entry for the prefix and the offered copy is not better than it.
C4_SteadyState ==
    (pc = "done" /\ ~rerun /\ Acyclic) =>
        \A k \in RibKeys : \A X \in nodes :
            Offerable(k[1], X, Entry(k)) =>
                /\ k[2] \in DOMAIN local_rib[X]
                /\ \A t \in ExportTags(k[1], X, Entry(k)) :
                       ~isBetterThan(StoredAnn(copy_with_new_hop(Entry(k), k[1], t), X),
                                     local_rib[X][k[2]])

\* X was offered an entry by a neighbor and holds another one.
C4_Witness ==
    /\ pc = "done"
    /\ ~rerun
    /\ Acyclic
    /\ \E k \in RibKeys : \E X \in nodes :
           /\ Offerable(k[1], X, Entry(k))
           /\ k[2] \in DOMAIN local_rib[X]
           /\ local_rib[X][k[2]].next_hop_asn # k[1]
           /\ local_rib[X][k[2]].received_from # ORIGIN

\* C5: every entry in the RIB of AS X has X first in its as_path, in every state.
C5_PathStartsAtHolder ==
    \A k \in RibKeys : Entry(k).as_path[1] = k[1]

\* An entry learned from a neighbor.
C5_Witness ==
    \E k \in RibKeys : Len(Entry(k).as_path) >= 2

\* C6: no as_path in any RIB holds an ASN twice, in every state, also with
\* self-relationships and duplicate edges.
C6_NoDuplicateASN ==
    \A k \in RibKeys :
        \A i, j \in 1 .. Len(Entry(k).as_path) :
            Entry(k).as_path[i] = Entry(k).as_path[j] => i = j

\* An AS that is its own peer, customer or provider, with a duplicate edge or
\* not, holds a learned entry and has run its send loops.
C6_Witness ==
    /\ pc = "done"
    /\ \E k \in RibKeys :
           /\ Len(Entry(k).as_path) >= 2
           /\ \E a \in Range(Entry(k).as_path) :
                  a \in Range(peers[a]) \/ a \in Range(providers[a])

\* C9 as claimed: an ROV AS never has an announcement with rov_invalid in its
\* RIB and never sends one.
C9_Original ==
    \A a \in nodes :
        policy[a] = "ROV" =>
            /\ \A p \in DOMAIN local_rib[a] : ~local_rib[a][p].rov_invalid
            /\ \A d \in sent : d.from = a => ~d.ann.rov_invalid

\* C9 amended: an ROV AS never installs an announcement with rov_invalid that a
\* neighbor offered: the entries with rov_invalid in its RIB are the ones seeded
\* at it, and the only such announcements it sends are copies of its own seed.
C9_ROVInstallsNoInvalidOffer ==
    \A a \in nodes :
        policy[a] = "ROV" =>
            /\ \A p \in DOMAIN local_rib[a] :
                   local_rib[a][p].rov_invalid =>
                       (local_rib[a][p].received_from = ORIGIN /\ <<a, p>> \in seeded)
            /\ \A d \in sent : (d.from = a /\ d.ann.rov_invalid) => d.tag = ORIGIN

\* An ROV AS was offered an announcement with rov_invalid.
C9_Witness ==
    \E d \in sent : policy[d.to] = "ROV" /\ d.ann.rov_invalid

\* C10: an ROV AS that did not seed p and was offered only announcements with
\* rov_invalid for p has no entry for p when propagation ends.
C10_ROVOnlyInvalidNoEntry ==
    (pc = "done" /\ ~rerun) =>
        \A X \in nodes : \A p \in UNION {DOMAIN local_rib[a] : a \in ASNs} :
            (/\ policy[X] = "ROV"
             /\ <<X, p>> \notin seeded
             /\ \A d \in sent : (d.to = X /\ d.ann.prefix = p) => d.ann.rov_invalid)
            => p \notin DOMAIN local_rib[X]

\* An ROV AS that seeded nothing was offered the prefix, each time with
\* rov_invalid, and propagation has ended.
C10_Witness ==
    /\ pc = "done"
    /\ ~rerun
    /\ \E d \in sent :
           /\ policy[d.to] = "ROV"
           /\ <<d.to, d.ann.prefix>> \notin seeded
           /\ \A e \in sent : (e.to = d.to /\ e.ann.prefix = d.ann.prefix) => e.ann.rov_invalid
           /\ d.ann.prefix \notin DOMAIN local_rib[d.to]

\* The announcements the policy object holds for prefix p, staged or installed.
PolicyHeld(p) ==
    (IF p \in DOMAIN received_queue[PolicyASN] THEN Range(received_queue[PolicyASN][p]) ELSE {})
    \cup (IF p \in DOMAIN local_rib[PolicyASN] THEN {local_rib[PolicyASN][p]} ELSE {})

PolicyPrefixes == DOMAIN received_queue[PolicyASN] \cup DOMAIN local_rib[PolicyASN]

\* What isBetterThan reads of an announcement.
SelectionKey(a) == <<a.received_from, Len(a.as_path), a.next_hop_asn>>

\* C11 as claimed: of two distinct announcements for the same prefix exactly one
\* is better than the other.
C11_Original ==
    \A p \in PolicyPrefixes : \A a, b \in PolicyHeld(p) :
        a # b => (isBetterThan(a, b) # isBetterThan(b, a))

\* C11 amended: of two announcements for the same prefix that differ in tag,
\* path length or next hop exactly one is better than the other; two that agree on
\* all three are tied, neither is better, whatever their paths and rov_invalid.
C11_TotalOnSelectionKey ==
    \A p \in PolicyPrefixes : \A a, b \in PolicyHeld(p) :
        IF SelectionKey(a) # SelectionKey(b)
        THEN isBetterThan(a, b) # isBetterThan(b, a)
        ELSE ~isBetterThan(a, b) /\ ~isBetterThan(b, a)

\* Two distinct staged announcements tied on tag, path length and next hop, and
\* a third one held that differs from them; the selection has run.
C11_Witness ==
    \E p \in PolicyPrefixes :
        /\ p \in DOMAIN local_rib[PolicyASN]
        /\ local_rib[PolicyASN][p].received_from # ORIGIN
        /\ \E a, b, c \in PolicyHeld(p) :
               /\ a # b
               /\ SelectionKey(a) = SelectionKey(b)
               /\ SelectionKey(a) # SelectionKey(c)

\* The RIB entry for p that the claim allows after processing candidates `cands`
\* over the RIB `rib`: built from a candidate no other candidate is better than.
AllowedEntries(rib, cands, p) ==
    {IF p \notin DOMAIN rib \/ isBetterThan(StoredAnn(cands[i], PolicyASN), rib[p])
     THEN StoredAnn(cands[i], PolicyASN) ELSE rib[p] :
        i \in {j \in 1 .. Len(cands) :
                  \A k \in 1 .. Len(cands) : ~isBetterThan(cands[k], cands[j])}}

\* C12: after processReceivedQueue every prefix with staged candidates holds the
\* better of the old entry and the self-prepended copy of a candidate no other
\* candidate is better than; the old entry stays when the copy is not better, and
\* prefixes without candidates keep their entry.
C12_ProcessSelectsBest ==
    [][PolicyProcess =>
        LET rib == local_rib[PolicyASN]
            queue == received_queue[PolicyASN]
        IN  /\ DOMAIN local_rib'[PolicyASN] = DOMAIN rib \cup DOMAIN queue
            /\ \A p \in DOMAIN queue :
                   local_rib'[PolicyASN][p] \in AllowedEntries(rib, queue[p], p)
            /\ \A p \in DOMAIN rib \ DOMAIN queue : local_rib'[PolicyASN][p] = rib[p]]_vars

\* A prefix whose old entry was replaced by the second of two candidates, next to
\* a prefix without candidates that kept its entry.
C12_Witness ==
    LET rib == local_rib[PolicyASN]
        queue == received_queue[PolicyASN]
    IN  /\ \E p \in DOMAIN queue :
               /\ Len(queue[p]) = 2
               /\ p \in DOMAIN rib
               /\ rib[p] = StoredAnn(queue[p][2], PolicyASN)
               /\ isBetterThan(queue[p][2], queue[p][1])
        /\ \E p \in DOMAIN rib \ DOMAIN queue : rib[p].received_from = ORIGIN

\* C14: a second propagateAnnouncements call on a ranked acyclic topology, with
\* nothing done in between, leaves every RIB as the first call left it.
C14_SecondRunChangesNothing ==
    (pc = "done" /\ rerun /\ Acyclic) => local_rib = prior_rib

\* The second call has ended on a topology where peer- and provider-learned
\* entries stand next to providers and peers they must not be sent to.
C14_Witness ==
    /\ pc = "done"
    /\ rerun
    /\ Acyclic
    /\ \E k \in RibKeys :
           /\ Entry(k).received_from \in {PEER, PROVIDER}
           /\ providers[k[1]] # << >> \/ peers[k[1]] # << >>
    /\ prior_rib # [a \in ASNs |-> EmptyMap]

\* C15: a RIB entry at X has the tag ORIGIN only if it was seeded at X, and it
\* is the seeded route; no entry learned from a neighbor carries ORIGIN.
C15_OriginOnlyWhenSeeded ==
    \A k \in RibKeys :
        Entry(k).received_from = ORIGIN =>
            (<<k[1], k[2]>> \in seeded /\ Entry(k).as_path = <<k[1]>>)

\* Propagation has ended with a seeded entry kept against an offer, and a
\* learned entry at an AS that seeded nothing.
C15_Witness ==
    /\ pc = "done"
    /\ \E k \in RibKeys :
           /\ Entry(k).received_from = ORIGIN
           /\ \E n \in Range(customers[k[1]]) :
                  /\ k[2] \in DOMAIN local_rib[n]
                  /\ local_rib[n][k[2]].received_from = ORIGIN
    /\ \E k \in RibKeys : <<k[1], k[2]>> \notin seeded

\* C16: detectCycles returns false on every topology whose customer-to-provider
\* graph is acyclic, whatever its peer edges, duplicate edges and visiting order.
C16_NoAcyclicTopologyRejected ==
    cycles = "true" => CustomerProviderCycle

\* An acyclic topology was accepted that has an AS with two provider edges
\* (a duplicate edge or a second provider) and a peer edge.
C16_Witness ==
    /\ cycles = "false"
    /\ Acyclic
    /\ peer_edges >= 1
    /\ \E a \in nodes : Len(providers[a]) >= 2

\* C17: propagateAnnouncements runs to completion without a fault on every
\* ranked acyclic topology in which some ASes have no policy; those ASes are
\* skipped as senders and receivers.
C17_NoFaultWithoutPolicy ==
    (Acyclic /\ NullPolicyRead) =>
        /\ pc # "fault"
        /\ \A a \in nodes : policy[a] = "null" =>
               (local_rib[a] = EmptyMap /\ received_queue[a] = EmptyMap)

\* The prefix Prefix::parse gives for a text it cannot parse.
SentinelPrefix == [is_ipv6 |-> FALSE, address |-> 0, prefix_len |-> 0]

\* C18: a seed whose prefix text cannot be parsed is skipped: no RIB changes and
\* no entry appears under the sentinel empty prefix.
C18_UnparseableSeedSkipped ==
    \A a \in ASNs : SentinelPrefix \notin DOMAIN local_rib[a]

\* C19: seedAnnouncement for an origin the graph does not have creates no AS and
\* changes no RIB and no staging area: the call changes nothing of the program's
\* state, so all that follows is as if it had not been made.
C19_UnknownOriginIgnored ==
    [][seed_calls' # seed_calls =>
          /\ UNCHANGED <<graph_vars, cycles, rank_vars, policy_vars, pc, loop_vars>>
          /\ \A a \in seed_calls' :
                 /\ a \notin nodes'
                 /\ local_rib'[a] = EmptyMap
                 /\ received_queue'[a] = EmptyMap]_vars

\* A seed for an AS the graph does not have was refused, a later seed was
\* installed and propagation has ended with a learned entry.
C19_Witness ==
    /\ pc = "done"
    /\ seed_calls # {}
    /\ seeded # {}
    /\ \E k \in RibKeys : Entry(k).received_from # ORIGIN

\* C20: loadROVASNs leaves every upgraded AS with an empty RIB and an empty
\* staging area, and the RIB and the policy of every AS not listed as they were.
C20_LoadROVFrame ==
    [][\A list \in SUBSET CallASNs :
          LoadROVASNsLate(list) =>
              \A a \in nodes :
                  IF a \in list /\ policy[a] # "null"
                  THEN /\ policy'[a] = "ROV"
                       /\ local_rib'[a] = EmptyMap
                       /\ received_queue'[a] = EmptyMap
                  ELSE /\ policy'[a] = policy[a]
                       /\ local_rib'[a] = local_rib[a]]_vars

\* An upgraded AS has lost the route seeded at it or learned by it, next to an
\* AS that was not listed and kept its route.
C20_Witness ==
    /\ \E a \in nodes :
           /\ policy[a] = "ROV"
           /\ local_rib[a] = EmptyMap
           /\ \/ \E q \in seeded : q[1] = a
              \/ \E d \in sent : d.to = a
    /\ \E a \in nodes : policy[a] = "BGP" /\ local_rib[a] # EmptyMap

\* The sequence s in ascending order.
RECURSIVE SortedSeq(_)
SortedSeq(s) ==
    IF s = << >> THEN << >>
    ELSE LET m == CHOOSE x \in Range(s) : \A y \in Range(s) : x <= y
             i == CHOOSE j \in 1 .. Len(s) : s[j] = m
         IN  <<m>> \o SortedSeq(SubSeq(s, 1, i - 1) \o SubSeq(s, i + 1, Len(s)))

\* The RIBs a propagateAnnouncements run gives from the RIBs `ribs` when every
\* adjacency list, every rank and the ACROSS loop are visited in ascending ASN
\* order: a function of the relationships, the ranks, the policies and `ribs`.
AscendingRunWith(ribs, pol) ==
    RunPropagation(
        [rib |-> ribs, queue |-> [a \in ASNs |-> EmptyMap]],
        [r \in 1 .. Len(ranked_ases) |-> SortedSeq(ranked_ases[r])],
        SortedSeq(CHOOSE order \in Orders({a \in nodes : peers[a] # << >>}) : TRUE),
        [providers |-> [a \in ASNs |-> SortedSeq(providers[a])],
         customers |-> [a \in ASNs |-> SortedSeq(customers[a])],
         peers |-> [a \in ASNs |-> SortedSeq(peers[a])],
         policy |-> pol]).rib

AscendingRun(ribs) == AscendingRunWith(ribs, policy)

C21_AdjacencySymmetric ==
    \A x, y \in ASNs :
        /\ Count(customers[x], y) = Count(providers[y], x)
        /\ Count(peers[x], y) = Count(peers[y], x)

\* The same customer-provider edge and the same peer edge were entered twice, or
\* an AS was made its own peer.
C21_Witness ==
    \/ \E x, y \in nodes :
           /\ x # y
           /\ Count(customers[x], y) = 2
           /\ \E z \in nodes : Count(peers[z], z) = 2
    \/ \E x, y \in nodes : x # y /\ Count(peers[x], y) = 2 /\ Count(customers[x], y) = 1

\* The fields of a line: the texts between its '|' separators.
RECURSIVE Fields(_)
Fields(line) ==
    IF \A i \in 1 .. Len(line) : line[i] # "|" THEN <<line>>
    ELSE LET i == CHOOSE j \in 1 .. Len(line) :
                      line[j] = "|" /\ \A k \in 1 .. j - 1 : line[k] # "|"
         IN  <<SubSeq(line, 1, i - 1)>> \o Fields(SubSeq(line, i + 1, Len(line)))

\* The records whose relationship field is not one of -1, 0, 1.
UnknownRelLines ==
    {line \in FileLines :
        /\ Len(Fields(line)) >= 3
        /\ Fields(line)[3] \notin {<<"-", "1">>, <<"0">>, <<"1">>}}

\* C22: buildFromFile adds no AS and no edge for a record whose relationship
\* field is not one of -1, 0, 1: the graph is as if the line were absent.
C22_UnknownRelationSkipped ==
    [][\A line \in UnknownRelLines : ReadLine(line) => UNCHANGED graph_vars]_vars

\* C23: propagateAnnouncements removes no RIB entry: the prefixes of every RIB
\* at the start of the run are there at its end.
C23_RibPrefixesOnlyGrow ==
    pc = "done" => \A a \in ASNs : DOMAIN prior_rib[a] \subseteq DOMAIN local_rib[a]

\* A run has ended in which an AS that held an entry processed the route of a
\* customer for the same prefix, and another AS gained an entry.
C23_Witness ==
    /\ pc = "done"
    /\ \E a \in nodes : \E p \in DOMAIN prior_rib[a] :
           \E c \in Range(customers[a]) : c # a /\ p \in DOMAIN prior_rib[c]
    /\ \E a \in nodes : DOMAIN prior_rib[a] # DOMAIN local_rib[a]

\* C25: after propagation the last as_path element of every RIB entry for
\* prefix p is an AS that seeded p, and the entry has that seed's prefix and
\* rov_invalid flag.
C25_EntryCarriesItsSeed ==
    pc = "done" =>
        \A k \in RibKeys :
            LET e == Entry(k)
                origin == e.as_path[Len(e.as_path)]
            IN  /\ <<origin, k[2]>> \in seeded
                /\ e.prefix = k[2]
                /\ k[2] \in DOMAIN local_rib[origin]
                /\ local_rib[origin][k[2]].received_from = ORIGIN
                /\ e.rov_invalid = local_rib[origin][k[2]].rov_invalid

\* Propagation has ended with a learned invalid route, where another AS seeded
\* the same prefix as valid.
C25_Witness ==
    /\ pc = "done"
    /\ \E k \in RibKeys : Entry(k).rov_invalid /\ Len(Entry(k).as_path) >= 2
    /\ \E k \in RibKeys : ~Entry(k).rov_invalid

\* No RIB held an invalid announcement when the run began.
NoInvalidSeed == \A a \in ASNs : \A p \in DOMAIN prior_rib[a] : ~prior_rib[a][p].rov_invalid

\* The policies with every ROV policy replaced by a BGP policy.
WithoutROV == [a \in ASNs |-> IF policy[a] = "ROV" THEN "BGP" ELSE policy[a]]

\* C29: when every seeded announcement is valid, the final RIBs with any set of
\* ASes upgraded to ROV are the final RIBs with no AS upgraded.
C29_ROVTransparentForValid ==
    (pc = "done" /\ Acyclic /\ NoInvalidSeed) =>
        local_rib = AscendingRunWith(prior_rib, WithoutROV)

\* A run with valid seeds only has ended, in which an ROV AS learned a route and
\* passed it on to a BGP AS.
C29_Witness ==
    /\ pc = "done"
    /\ Acyclic
    /\ NoInvalidSeed
    /\ \E k \in RibKeys :
           /\ Len(Entry(k).as_path) >= 3
           /\ policy[k[1]] = "BGP"
           /\ policy[Entry(k).as_path[2]] = "ROV"

PhaseEnds ==
    \/ pc \in {"up_send", "up_process"} /\ pc' \notin {"up_send", "up_process"}
    \/ pc = "across_process"
    \/ pc \in {"down_send", "down_process"} /\ pc' \notin {"down_send", "down_process"}

\* C24: on a ranked acyclic topology the staging area of every AS is empty at
\* the end of each of the three phases, and so when propagateAnnouncements
\* returns.
C24_StagingEmptyAfterPhase ==
    [][(Acyclic /\ PhaseEnds) => \A a \in ASNs : received_queue'[a] = EmptyMap]_vars

\* A run has ended in which announcements were delivered up and down, and a
\* provider two ranks above a customer kept that customer's route staged while
\* the rank between them was processed.
C24_Witness ==
    /\ pc = "done"
    /\ Acyclic
    /\ \E d \in sent : d.ann.received_from = CUSTOMER
                         /\ propagation_rank[d.to] >= propagation_rank[d.from] + 2
    /\ \E d \in sent : d.ann.received_from = PROVIDER

\* The position of an AS in ranked_ases is visited before the running loop
\* position in propagateUp, where ranks go up ...
SentUp(a) ==
    \E r \in 1 .. Len(ranked_ases) : \E i \in 1 .. Len(ranked_ases[r]) :
        /\ ranked_ases[r][i] = a
        /\ r < rank + 1 \/ (r = rank + 1 /\ i < idx)

\* ... and in propagateDown, where ranks go down.
SentDown(a) ==
    \E r \in 1 .. Len(ranked_ases) : \E i \in 1 .. Len(ranked_ases[r]) :
        /\ ranked_ases[r][i] = a
        /\ r > rank + 1 \/ (r = rank + 1 /\ i < idx)

\* C26: on a ranked acyclic topology an AS sends to its providers in UP only
\* after every customer of it has sent and its staged candidates are processed,
\* and to its customers in DOWN only after every provider of it has sent and
\* its staged candidates are processed; nothing is delivered ACROSS before UP
\* has ended, and nothing DOWN before ACROSS has ended.
C26_SendsAfterContributors ==
    Acyclic =>
        /\ pc = "up_send" =>
               LET asn == ranked_ases[rank + 1][idx]
               IN  /\ \A c \in Range(customers[asn]) : SentUp(c)
                   /\ received_queue[asn] = EmptyMap
        /\ pc = "down_send" =>
               LET asn == ranked_ases[rank + 1][idx]
               IN  /\ \A p \in Range(providers[asn]) : SentDown(p)
                   /\ received_queue[asn] = EmptyMap
        /\ pc \in {"up_send", "up_process"} =>
               \A d \in sent : d.ann.received_from = CUSTOMER
        /\ pc \in {"across_send", "across_process"} =>
               \A d \in sent : d.ann.received_from \in {CUSTOMER, PEER}

\* An AS is about to send to its provider the route it learned from its
\* customer.
C26_Witness ==
    /\ pc = "up_send"
    /\ Acyclic
    /\ LET asn == ranked_ases[rank + 1][idx]
       IN  /\ providers[asn] # << >>
           /\ \E p \in DOMAIN local_rib[asn] : local_rib[asn][p].received_from = CUSTOMER
           /\ \E d \in sent : d.to = asn

\* The step is the body of a send loop.
SendStep == pc \in {"up_send", "across_send", "down_send"}

\* C28: a delivery changes the staging area of its receiver only: during the
\* send loops no RIB changes.
C28_SendChangesStagingOnly ==
    [][SendStep =>
          /\ local_rib' = local_rib
          /\ \A a \in ASNs :
                 received_queue'[a] # received_queue[a] => \E d \in sent' : d.to = a]_vars

\* In propagateAcross an AS that has a staged candidate is still to send its
\* own entry to its peers.
C28_Witness ==
    /\ pc = "across_send"
    /\ \E a \in todo :
           /\ received_queue[a] # EmptyMap
           /\ local_rib[a] # EmptyMap
           /\ peers[a] # << >>

\* The step calls processReceivedQueue and then clearReceivedQueue for the ASes
\* of `batch`, and touches the RIB and the staging area of no other AS.
ProcessesOnly(batch) ==
    \A a \in ASNs :
        IF a \in batch
        THEN /\ local_rib'[a] = processReceivedQueue(local_rib[a], received_queue[a], a)
             /\ received_queue'[a] = EmptyMap
        ELSE /\ local_rib'[a] = local_rib[a]
             /\ received_queue'[a] = received_queue[a]

\* The number of times AS a stands in ranked_ases.
RECURSIVE TimesRanked(_, _)
TimesRanked(a, r) ==
    IF r = 0 THEN 0 ELSE Count(ranked_ases[r], a) + TimesRanked(a, r - 1)

\* C27: in a run on a ranked acyclic topology process is invoked at most once
\* per AS in each phase, each time followed by the clearing of its staging
\* area: the process loop of UP runs once for each of the ranks 1..R, that of
\* DOWN once for each of the ranks R-1..0, that of ACROSS once for all ASes,
\* and no AS stands in two ranks or twice in one.
C27_ProcessOncePerPhase ==
    [][Acyclic =>
          /\ pc = "up_process" =>
                 /\ ProcessesOnly(Range(ranked_ases[rank + 2]))
                 /\ rank + 1 \in 1 .. Len(ranked_ases) - 1
                 /\ pc' \in {"up_send", "up_process"} => rank' > rank
          /\ pc = "up_send" =>
                 (pc' \in {"up_send", "up_process"} => rank' >= rank)
          /\ pc = "across_process" =>
                 /\ ProcessesOnly(nodes)
                 /\ pc' # "across_process"
          /\ pc = "down_process" =>
                 /\ ProcessesOnly(Range(ranked_ases[rank]))
                 /\ rank - 1 \in 0 .. Len(ranked_ases) - 2
                 /\ pc' \in {"down_send", "down_process"} => rank' < rank
          /\ pc = "down_send" =>
                 (pc' \in {"down_send", "down_process"} => rank' <= rank)
          /\ pc \in {"up_process", "across_process", "down_process"} =>
                 \A a \in nodes : TimesRanked(a, Len(ranked_ases)) = 1]_vars

\* propagateDown is about to process an AS of rank 1 that has candidates staged
\* and was processed in propagateUp.
C27_Witness ==
    /\ pc = "down_process"
    /\ Acyclic
    /\ rank = 2
    /\ \E a \in Range(ranked_ases[rank]) :
           /\ received_queue[a] # EmptyMap
           /\ \E p \in DOMAIN local_rib[a] : local_rib[a][p].received_from = CUSTOMER

\* The summed length of the lists `lists` holds for the ASes of S.
RECURSIVE TotalLen(_, _)
TotalLen(lists, S) ==
    IF S = {} THEN 0
    ELSE LET a == CHOOSE x \in S : TRUE
         IN  Len(lists[a]) + TotalLen(lists, S \ {a})

\* C36: after any sequence of addRelationship calls getEdgeCount is
\* getProviderCustomerEdges + getPeerEdges, the provider-customer total is the
\* summed length of all providers lists and of all customers lists, and the
\* peer total is half the summed length of all peers lists.
C36_EdgeCounters ==
    /\ edge_count = provider_customer_edges + peer_edges
    /\ provider_customer_edges = TotalLen(providers, ASNs)
    /\ provider_customer_edges = TotalLen(customers, ASNs)
    /\ 2 * peer_edges = TotalLen(peers, ASNs)

\* A peer edge, a provider-customer edge and an AS that is its own peer have
\* been entered.
C36_Witness ==
    /\ peer_edges = 2
    /\ provider_customer_edges = 1
    /\ \E a \in nodes : Count(peers[a], a) = 2

\* C35: processReceivedQueue returns true if and only if the call installed or
\* replaced a RIB entry, and a second call on the same staged candidates
\* returns false and changes nothing.
C35_ReturnsWhetherChanged ==
    [][PolicyProcess =>
          /\ processReturns(local_rib[PolicyASN], received_queue[PolicyASN], PolicyASN)
                 <=> local_rib'[PolicyASN] # local_rib[PolicyASN]
          /\ ~processReturns(local_rib'[PolicyASN], received_queue'[PolicyASN], PolicyASN)
          /\ processReceivedQueue(local_rib'[PolicyASN], received_queue'[PolicyASN],
                                  PolicyASN) = local_rib'[PolicyASN]]_vars

\* The candidates of two prefixes have been processed: for one the best
\* candidate was installed, for the other the seeded entry was kept.
C35_Witness ==
    LET rib == local_rib[PolicyASN]
        queue == received_queue[PolicyASN]
    IN  /\ \E p \in DOMAIN queue \cap DOMAIN rib :
               rib[p] = StoredAnn(BestCandidate(queue[p], Len(queue[p])), PolicyASN)
        /\ \E p \in DOMAIN queue \cap DOMAIN rib : rib[p].received_from = ORIGIN

\* C32: after propagation every RIB entry at X with a tag other than ORIGIN has
\* a path of at least two ASes, its next hop is the second of them, and that AS
\* is a customer, peer or provider of X as the tag says; every ORIGIN entry has
\* the path <<X>> and the next hop X.
C32_NextHopIsSecondOnPath ==
    pc = "done" =>
        \A k \in RibKeys :
            LET e == Entry(k)
            IN  IF e.received_from = ORIGIN
                THEN e.as_path = <<k[1]>> /\ e.next_hop_asn = k[1]
                ELSE /\ Len(e.as_path) >= 2
                     /\ e.next_hop_asn = e.as_path[2]
                     /\ e.received_from = CUSTOMER => e.as_path[2] \in Range(customers[k[1]])
                     /\ e.received_from = PEER => e.as_path[2] \in Range(peers[k[1]])
                     /\ e.received_from = PROVIDER => e.as_path[2] \in Range(providers[k[1]])

\* Propagation has ended with a route that went over two hops, the second one
\* under another tag than the first.
C32_Witness ==
    /\ pc = "done"
    /\ \E k \in RibKeys :
           /\ Len(Entry(k).as_path) = 3
           /\ LET via == Entry(k).as_path[2]
              IN  \E p \in DOMAIN local_rib[via] :
                      /\ local_rib[via][p].received_from # ORIGIN
                      /\ local_rib[via][p].received_from # Entry(k).received_from

\* The driver is inside propagateAnnouncements.
InRun == pc \in {"up_send", "up_process", "across_send", "across_process",
                 "down_send", "down_process"}

\* C34: in a run on a ranked acyclic topology that starts from RIBs holding
\* seeds only, no step changes a RIB entry that exists: every entry is written
\* at most once, and every seeded entry is there unchanged at the end.
C34_NoEntryOverwritten ==
    [][(Acyclic /\ ~rerun /\ InRun) =>
          \A a \in ASNs : \A p \in DOMAIN local_rib[a] :
              p \in DOMAIN local_rib'[a] /\ local_rib'[a][p] = local_rib[a][p]]_vars

\* The first run has ended; an AS kept its seed against an offer, and an AS kept
\* the route of a customer against a later offer of a peer or a provider.
C34_Witness ==
    /\ pc = "done"
    /\ ~rerun
    /\ Acyclic
    /\ \E k \in RibKeys :
           /\ Entry(k).received_from = ORIGIN
           /\ \E d \in sent : d.to = k[1] /\ d.ann.prefix = k[2]
    /\ \E k \in RibKeys :
           /\ Entry(k).received_from = CUSTOMER
           /\ \E d \in sent : /\ d.to = k[1]
                              /\ d.ann.prefix = k[2]
                              /\ d.ann.received_from \in {PEER, PROVIDER}

\* The ASes zero or more provider-to-customer edges below an AS of S.
RECURSIVE CustomersBelow(_)
CustomersBelow(S) ==
    LET next == S \cup UNION {Range(customers[a]) : a \in S}
    IN  IF next = S THEN S ELSE CustomersBelow(next)

\* The ASes of S and the ones one peer edge from them.
AcrossOnePeer(S) == S \cup UNION {Range(peers[a]) : a \in S}

\* The ASes at the end of a path from an AS of S made of customer-to-provider
\* edges, then at most one peer edge, then provider-to-customer edges.
ValleyFreeReach(S) == CustomersBelow(AcrossOnePeer(ProvidersAbove(S)))

Seeders(p) == {a \in ASNs : <<a, p>> \in seeded}

KnownPrefixes == {k[2] : k \in seeded} \cup UNION {DOMAIN local_rib[a] : a \in ASNs}

NoROV == \A a \in ASNs : policy[a] # "ROV"

\* C33: with no ROV AS, after propagation on a ranked acyclic topology an AS
\* holds an entry for a prefix exactly when it seeded the prefix or a path of
\* customer-to-provider edges, then at most one peer edge, then
\* provider-to-customer edges leads to it from an AS that seeded the prefix.
C33_EntryIffValleyFreeReachable ==
    (pc = "done" /\ Acyclic /\ NoROV) =>
        \A X \in ASNs : \A p \in KnownPrefixes :
            p \in DOMAIN local_rib[X] <=> X \in ValleyFreeReach(Seeders(p))

\* After a run, one AS holds a route that crossed a peer edge, and another AS of
\* the graph, next to an AS with an entry, holds nothing.
C33_Witness ==
    /\ pc = "done"
    /\ Acyclic
    /\ NoROV
    /\ \E k \in RibKeys :
           /\ Len(Entry(k).as_path) >= 2
           /\ \E i \in 1 .. Len(Entry(k).as_path) - 1 : Hops(Entry(k).as_path)[i] = 2
    /\ \E X \in nodes, p \in KnownPrefixes :
           /\ p \notin DOMAIN local_rib[X]
           /\ \E b \in Range(peers[X]) \cup Range(customers[X]) \cup Range(providers[X]) :
                  p \in DOMAIN local_rib[b]

\* C31: once initializeBGP has been called, every non-zero ASN that a
\* loadROVASNs call listed, before or after it, and that is in the graph holds
\* an ROV policy.
C31_ListedHoldROV ==
    pc = "init" => \A a \in rov_asns : a \in nodes => policy[a] = "ROV"

====
